---- MODULE Spec2Model ----
(***************************************************************************)
(* The summarization pipeline of backend/: TextProcessor (preprocess_text, *)
(* chunk_text), SummarizerService (summarize_text and its strategies) and  *)
(* the /summarize and /batch routes.                                       *)
(*                                                                         *)
(* A Python str is a sequence of one-character strings.                    *)
(***************************************************************************)
EXTENDS Integers, Sequences, FiniteSets, TLC

VARIABLES
    pc,            \* which call the client has made so far
    text,          \* the str handed to TextProcessor.preprocess_text / chunk_text
    processed,     \* preprocess_text(text)
    reprocessed,   \* preprocess_text(processed)
    chunk_limit,   \* chunk_text's max_length argument
    chunks,        \* the list chunk_text returned
    models,        \* SummarizerService.models: the names of the loaded pipelines
    sentence_model,\* whether SummarizerService.sentence_model was set by _load_models
    request,       \* the request the handler was called with
    answers,       \* what the embedding model and the generators answer in this call
    response,      \* what the handler returned or raised, with the calls it made
    clock          \* the values of time.time() that reached the response of /batch

vars == <<pc, text, processed, reprocessed, chunk_limit, chunks,
          models, sentence_model, request, answers, response, clock>>

NoRequest == [kind |-> "none"]
NoEnv == [embeddings |-> <<>>, generated |-> <<>>]
NoResponse == [kind |-> "none"]

----------------------------------------------------------------------------
(* Characters *)

\* whitespace for \s, str.split() and str.strip(): a space and a line feed stand
\* for all of it
Whitespace == {" ", "\n"}
LowerLetters == {"a", "b", "x", "y"}
UpperLetters == {"A", "B", "X", "Y"}
\* \w of the regex at text_processor.py:30
WordChars == LowerLetters \cup UpperLetters \cup {"0", "_"}
\* the punctuation kept by the regex at text_processor.py:30
KeptPunctuation == {".", "!", "?", ",", ";", ":", "-", "(", ")"}
\* the punctuation of the regex at text_processor.py:33
SpacingPunctuation == {".", "!", "?", ",", ";", ":"}

IsSpace(c) == c \in Whitespace

\* str.islower() of one character
IsLower(c) == c \in LowerLetters

\* str.upper() of one character
ToUpper(c) ==
    CASE c = "a" -> "A"
      [] c = "b" -> "B"
      [] c = "x" -> "X"
      [] c = "y" -> "Y"
      [] OTHER -> c

----------------------------------------------------------------------------
(* str and list helpers *)

\* the list with its elements computed
AsList(f) == SubSeq(f, 1, Len(f))

\* s[i:] for a 1-based i
DropPrefix(s, i) == SubSeq(s, i, Len(s))

\* the first index > i holding a non-whitespace character, Len(s) + 1 if none
NextNonSpace(s, i) ==
    IF \A j \in (i+1)..Len(s) : IsSpace(s[j]) THEN Len(s) + 1
    ELSE CHOOSE j \in (i+1)..Len(s) : ~IsSpace(s[j]) /\ \A m \in (i+1)..(j-1) : IsSpace(s[m])

\* the last index holding a non-whitespace character, 0 if none
LastNonSpace(s) ==
    IF \A i \in 1..Len(s) : IsSpace(s[i]) THEN 0
    ELSE CHOOSE i \in 1..Len(s) : ~IsSpace(s[i]) /\ \A j \in (i+1)..Len(s) : IsSpace(s[j])

\* str.strip(): leading and trailing whitespace removed
Strip(s) == SubSeq(s, NextNonSpace(s, 0), LastNonSpace(s))

\* len(s.split()): the number of maximal runs of non-whitespace characters
WordCount(s) ==
    Cardinality({i \in 1..Len(s) : ~IsSpace(s[i]) /\ (i = 1 \/ IsSpace(s[i-1]))})

----------------------------------------------------------------------------
(* TextProcessor.preprocess_text *)

\* the characters of s at the positions Keep holds of, in order
IsMarked(p) == p.keep
Unmark(marked) == AsList([i \in 1..Len(marked) |-> marked[i].c])

\* re.sub(r'\s+', ' ', text): every maximal whitespace run becomes one space
CollapseWhitespace(s) ==
    Unmark(SelectSeq([i \in 1..Len(s) |->
                        [c |-> IF IsSpace(s[i]) THEN " " ELSE s[i],
                         keep |-> ~(IsSpace(s[i]) /\ i > 1 /\ IsSpace(s[i-1]))]],
                     IsMarked))

IsKeptChar(c) == c \in WordChars \cup Whitespace \cup KeptPunctuation

\* re.sub(r'[^\w\s\.\!\?\,\;\:\-\(\)]', '', text): the other characters are deleted
RemoveSpecial(s) == SelectSeq(s, IsKeptChar)

\* re.sub(r'\s+([\.!\?,;:])', r'\1', text): a whitespace run that a spacing
\* punctuation character follows is deleted (the match starts at the run's first
\* character, \s+ takes the whole run)
FixPunctuationSpacing(s) ==
    Unmark(SelectSeq([i \in 1..Len(s) |->
                        [c |-> s[i],
                         keep |-> ~(/\ IsSpace(s[i])
                                    /\ NextNonSpace(s, i) <= Len(s)
                                    /\ s[NextNonSpace(s, i)] \in SpacingPunctuation)]],
                     IsMarked))

\* if text and text[0].islower(): text = text[0].upper() + text[1:]
CapitalizeFirst(s) ==
    IF Len(s) > 0 /\ IsLower(s[1]) THEN <<ToUpper(s[1])>> \o DropPrefix(s, 2) ELSE s

preprocess_text(s) ==
    Strip(CapitalizeFirst(FixPunctuationSpacing(RemoveSpecial(CollapseWhitespace(s)))))

----------------------------------------------------------------------------
(* nltk.sent_tokenize: the Punkt sentence tokenizer with its pretrained English  *)
(* parameters. A sentence is a slice of the text. A potential sentence end is a  *)
(* sentence-end character that is followed by a non-word punctuation character,  *)
(* or by whitespace and a further token; of the potential ends inside one        *)
(* whitespace-free token only the last one counts (the \S* before the character  *)
(* is greedy). "!" and "?" always end a sentence there; "." does unless the      *)
(* token is an ellipsis or a one-letter initial that a letter follows. Closing   *)
(* punctuation right after the end is realigned into the ended sentence.         *)

PunktSentEndChars == {".", "?", "!"}
PunktNonWordChars == {")", "\"", ";", "}", "]", "*", ":", "@", "'", "(", "{", "[", "!"}
PunktClosers == {"\"", "'", ")", "]", "}"}
Letters == LowerLetters \cup UpperLetters

\* the lookahead of Punkt's period-context pattern
PunktPotentialEnd(s, i) ==
    /\ s[i] \in PunktSentEndChars
    /\ i < Len(s)
    /\ \/ s[i+1] \in PunktNonWordChars
       \/ IsSpace(s[i+1]) /\ NextNonSpace(s, i) <= Len(s)

\* no later potential end in the same whitespace-free token
PunktLastInToken(s, i) ==
    ~ \E j \in (i+1)..Len(s) :
        /\ PunktPotentialEnd(s, j)
        /\ \A m \in (i+1)..j : ~IsSpace(s[m])

\* the annotation of the token that ends at i
PunktIsSentBreak(s, i) ==
    IF s[i] # "." THEN TRUE
    ELSE LET ellipsis == i > 1 /\ s[i-1] = "."
             initial  == /\ i > 1 /\ s[i-1] \in Letters
                         /\ (i = 2 \/ IsSpace(s[i-2]) \/ s[i-2] \in PunktNonWordChars)
             nxt      == NextNonSpace(s, i)
         IN  /\ ~ellipsis
             /\ ~(initial /\ nxt <= Len(s) /\ s[nxt] \in Letters)

\* the end of the run of closers that starts at start
PunktCloserRunEnd(s, start) ==
    LET RunEnd[j \in start..(Len(s) + 1)] ==
            IF j <= Len(s) /\ s[j] \in PunktClosers THEN RunEnd[j+1] ELSE j
    IN  IF start <= Len(s) THEN RunEnd[start] ELSE start

PunktRealign(s, i, start, stop) ==
    IF /\ stop > start
       /\ \/ stop > Len(s)
          \/ IsSpace(s[stop])
          \/ stop < Len(s) /\ s[stop] = "-" /\ s[stop+1] = "-"
    THEN stop - 1
    ELSE i

\* where the sentence ended at i stops after realignment: a run of closers that
\* starts the next sentence and is followed by whitespace, "--" or the end of the
\* text belongs to the ended sentence
PunktRealignedEnd(s, i) ==
    PunktRealign(s, i, NextNonSpace(s, i), PunktCloserRunEnd(s, NextNonSpace(s, i)))

PunktSentenceEnds(s) ==
    {PunktRealignedEnd(s, i) :
        i \in {j \in 1..Len(s) :
                 PunktPotentialEnd(s, j) /\ PunktLastInToken(s, j) /\ PunktIsSentBreak(s, j)}}

\* the slices between the ends, from the first to the last non-whitespace character
PunktSlices(s, ends, last) ==
    LET F[start \in 1..(Len(s) + 1)] ==
            IF start > last \/ ~(\E e \in ends : e >= start)
            THEN IF start > last THEN <<>> ELSE <<SubSeq(s, start, last)>>
            ELSE <<SubSeq(s, start, CHOOSE x \in ends : x >= start /\ \A y \in ends : y >= start => x <= y)>>
                 \o F[NextNonSpace(s, CHOOSE x \in ends : x >= start /\ \A y \in ends : y >= start => x <= y)]
    IN  F[1]

sent_tokenize(s) == PunktSlices(s, PunktSentenceEnds(s), LastNonSpace(s))

----------------------------------------------------------------------------
(* TextProcessor.chunk_text *)

\* a variant of the loop without the final append of text_processor.py:55-56
ChunkSentencesWithoutLast(sentences, max_length) ==
    LET Step[i \in 0..Len(sentences)] ==
            IF i = 0 THEN [chunks |-> <<>>, current_chunk |-> <<>>]
            ELSE LET prev == Step[i-1] IN
                 IF Len(prev.current_chunk \o sentences[i]) <= max_length
                 THEN [chunks |-> prev.chunks,
                       current_chunk |-> prev.current_chunk \o sentences[i] \o <<" ">>]
                 ELSE [chunks |-> IF prev.current_chunk # <<>>
                                  THEN Append(prev.chunks, Strip(prev.current_chunk))
                                  ELSE prev.chunks,
                       current_chunk |-> sentences[i] \o <<" ">>]
    IN  Step[Len(sentences)].chunks

\* a variant of the loop that compares the sentence alone with max_length
ChunkSentencesBySentence(sentences, max_length) ==
    LET Step[i \in 0..Len(sentences)] ==
            IF i = 0 THEN [chunks |-> <<>>, current_chunk |-> <<>>]
            ELSE LET prev == Step[i-1] IN
                 IF Len(sentences[i]) <= max_length
                 THEN [chunks |-> prev.chunks,
                       current_chunk |-> prev.current_chunk \o sentences[i] \o <<" ">>]
                 ELSE [chunks |-> IF prev.current_chunk # <<>>
                                  THEN Append(prev.chunks, Strip(prev.current_chunk))
                                  ELSE prev.chunks,
                       current_chunk |-> sentences[i] \o <<" ">>]
    IN  IF Step[Len(sentences)].current_chunk # <<>>
        THEN Append(Step[Len(sentences)].chunks, Strip(Step[Len(sentences)].current_chunk))
        ELSE Step[Len(sentences)].chunks

\* the loop of text_processor.py:44-58 over the sentences
ChunkSentences(sentences, max_length) ==
    LET Step[i \in 0..Len(sentences)] ==
            IF i = 0 THEN [chunks |-> <<>>, current_chunk |-> <<>>]
            ELSE LET prev == Step[i-1]
                     sentence == sentences[i]
                 IN  IF Len(prev.current_chunk \o sentence) <= max_length
                     THEN [chunks |-> prev.chunks,
                           current_chunk |-> prev.current_chunk \o sentence \o <<" ">>]
                     ELSE [chunks |-> IF prev.current_chunk # <<>>
                                      THEN Append(prev.chunks, Strip(prev.current_chunk))
                                      ELSE prev.chunks,
                           current_chunk |-> sentence \o <<" ">>]
        last == Step[Len(sentences)]
    IN  IF last.current_chunk # <<>>
        THEN Append(last.chunks, Strip(last.current_chunk))
        ELSE last.chunks

chunk_text(s, max_length) == ChunkSentences(sent_tokenize(s), max_length)

----------------------------------------------------------------------------
(* models/summarizer.py: the request's field constraints *)

MinTextChars == 50
MinMaxSentences == 1
MaxMaxSentences == 20
MinMaxLength == 50
MaxMaxLength == 500
MinMinLength == 10
MaxMinLength == 200

LocalModels == {"bart", "t5", "pegasus"}
RemoteModels == {"openai", "cohere"}
Methods == {"extractive", "abstractive", "hybrid"}

\* whether SummarizationRequest(text=..., max_sentences=..., ...) validates
ValidRequestFields(txt, max_sentences, max_length, min_length) ==
    /\ Len(txt) >= MinTextChars
    /\ max_sentences >= MinMaxSentences /\ max_sentences <= MaxMaxSentences
    /\ max_length >= MinMaxLength /\ max_length <= MaxMaxLength
    /\ min_length >= MinMinLength /\ min_length <= MaxMinLength

----------------------------------------------------------------------------
(* What a call returns: a value or a raised exception, with the log of the     *)
(* calls made so far: the dispatches to a strategy or a provider method, the   *)
(* calls of _extractive_summarize, and the calls to the embedding model, the   *)
(* generators and the providers                                                *)

Return(v, log) == [ok |-> TRUE, val |-> v, err |-> "", log |-> log]
Raise(e, log) == [ok |-> FALSE, val |-> <<>>, err |-> e, log |-> log]

\* the log after the dispatch to a strategy of the service or to a provider method,
\* with the text handed to it
Dispatched(log, target, input) ==
    Append(log, [op |-> "dispatch", target |-> target, input |-> input])

\* the generator outcomes of the environment: the i-th call of a pipeline returns
\* env.generated[i].text or, with ok = FALSE, raises
GeneratorCalls(log) == Cardinality({i \in 1..Len(log) : log[i].op = "generate"})

----------------------------------------------------------------------------
(* SummarizerService._calculate_sentence_scores *)

Dot(u, v) ==
    LET F[i \in 0..Len(u)] == IF i = 0 THEN 0 ELSE F[i-1] + u[i] * v[i]
    IN  F[Len(u)]

SumSeq(xs) ==
    LET F[i \in 0..Len(xs)] == IF i = 0 THEN 0 ELSE F[i-1] + xs[i]
    IN  F[Len(xs)]

MaxOfSeq(xs) == CHOOSE x \in {xs[i] : i \in 1..Len(xs)} : \A i \in 1..Len(xs) : xs[i] <= x

\* a score is the fraction num / den, den > 0
ScoreLess(a, b) == a.num * b.den < b.num * a.den

\* np.dot(embeddings, embeddings.T) summed over axis 1, divided by the maximum when
\* that is positive
RowSums(embeddings) ==
    AsList([i \in 1..Len(embeddings) |->
              SumSeq(AsList([j \in 1..Len(embeddings) |-> Dot(embeddings[i], embeddings[j])]))])

NormalizedWithoutDividing(sums, top) ==
    AsList([i \in 1..Len(sums) |-> [num |-> sums[i], den |-> 1]])

Normalized(sums, top) ==
    AsList([i \in 1..Len(sums) |-> IF top > 0 THEN [num |-> sums[i], den |-> top]
                                   ELSE [num |-> sums[i], den |-> 1]])

calculate_sentence_scores(embeddings) ==
    Normalized(RowSums(embeddings), MaxOfSeq(RowSums(embeddings)))

----------------------------------------------------------------------------
(* SummarizerService._extractive_summarize *)

\* sorted(range(len(scores)), key=lambda i: scores[i], reverse=True): descending,
\* stable, so equal scores stay in ascending index order
SortedByScoreDescending(scores) ==
    LET n == Len(scores)
        Before(j, i) == ScoreLess(scores[i], scores[j])
                        \/ (~ScoreLess(scores[j], scores[i]) /\ ~ScoreLess(scores[i], scores[j]) /\ j < i)
        Rank(i) == Cardinality({j \in 1..n : Before(j, i)}) + 1
    IN  AsList([r \in 1..n |-> CHOOSE i \in 1..n : Rank(i) = r])

\* list[:k] for k >= 0
Take(xs, k) == SubSeq(xs, 1, IF k < Len(xs) THEN k ELSE Len(xs))

\* list.sort() of distinct integers
SortAscending(xs) ==
    LET elems == {xs[i] : i \in 1..Len(xs)}
    IN  AsList([r \in 1..Len(xs) |->
                  CHOOSE x \in elems : Cardinality({y \in elems : y < x}) = r - 1])

\* sep.join(strs)
Join(strs, sep) ==
    LET F[i \in 0..Len(strs)] ==
            IF i = 0 THEN <<>>
            ELSE IF i = 1 THEN strs[1]
            ELSE F[i-1] \o sep \o strs[i]
    IN  F[Len(strs)]

\* a variant of the selection without top_indices.sort()
SelectTopUnsorted(scores, max_sentences) ==
    Take(SortedByScoreDescending(scores), max_sentences)

\* the indices _extractive_summarize selects, in the order it joins them
SelectTopIndices(scores, max_sentences) ==
    SortAscending(Take(SortedByScoreDescending(scores), max_sentences))

\* [sentences[i] for i in top_indices]
SelectSentences(sentences, top_indices) ==
    AsList([r \in 1..Len(top_indices) |-> sentences[top_indices[r]]])

\* a variant of summarizer_service.py:88-106 that joins the sentences of a short
\* text instead of returning the text
ExtractiveJoiningShort(sentences, txt, max_sentences, env, log) ==
    IF Len(sentences) <= max_sentences THEN Return(Join(sentences, <<".", " ">>), log)
    ELSE IF ~sentence_model THEN Raise("AttributeError", log)
    ELSE Return(Join(SelectSentences(sentences,
                        SelectTopIndices(
                            calculate_sentence_scores(
                                AsList([i \in 1..Len(sentences) |-> env.embeddings[i]])),
                            max_sentences)),
                     <<".", " ">>),
                Append(log, [op |-> "encode", model |-> "all-MiniLM-L6-v2",
                             input |-> sentences]))

\* summarizer_service.py:88-106 on the tokenized sentences
ExtractiveOver(sentences, txt, max_sentences, env, log) ==
    IF Len(sentences) <= max_sentences THEN Return(txt, log)
    ELSE IF ~sentence_model THEN Raise("AttributeError", log)
    ELSE Return(Join(SelectSentences(sentences,
                        SelectTopIndices(
                            calculate_sentence_scores(
                                AsList([i \in 1..Len(sentences) |-> env.embeddings[i]])),
                            max_sentences)),
                     <<".", " ">>),
                Append(log, [op |-> "encode", model |-> "all-MiniLM-L6-v2",
                             input |-> sentences]))

\* the log after a call of _extractive_summarize, with the text and the
\* max_sentences of the request handed to it
Extracting(log, txt, max_sentences) ==
    Append(log, [op |-> "extract", input |-> txt, max_sentences |-> max_sentences])

extractive_summarize(txt, max_sentences, env, log) ==
    ExtractiveOver(sent_tokenize(txt), txt, max_sentences, env,
                   Extracting(log, txt, max_sentences))

----------------------------------------------------------------------------
(* SummarizerService._abstractive_summarize *)

MaxChunkLength == 1024

\* a variant of the generator call that answers a failure with an empty summary
GenerateOutcomeEmpty(outcome, called) ==
    IF outcome.ok THEN Return(outcome.text, called) ELSE Return(<<>>, called)

\* model(input, max_length=..., min_length=..., do_sample=False)[0]['summary_text']
GenerateOutcome(outcome, called) ==
    IF outcome.ok THEN Return(outcome.text, called) ELSE Raise("GeneratorError", called)

Generate(model, input, max_length, min_length, env, log) ==
    GenerateOutcome(env.generated[GeneratorCalls(log) + 1],
                    Append(log, [op |-> "generate", model |-> model, input |-> input,
                                 max_length |-> max_length, min_length |-> min_length]))

\* the loop over the chunks
RECURSIVE GenerateChunks(_, _, _, _, _, _, _)
RECURSIVE GenerateNext(_, _, _, _, _, _, _)
GenerateNext(r, model, chunklist, summaries, max_length, min_length, env) ==
    IF ~r.ok THEN r
    ELSE GenerateChunks(model, Tail(chunklist), Append(summaries, r.val),
                        max_length, min_length, env, r.log)

GenerateChunks(model, chunklist, summaries, max_length, min_length, env, log) ==
    IF chunklist = <<>> THEN Return(summaries, log)
    ELSE GenerateNext(Generate(model, Head(chunklist), max_length, min_length, env, log),
                      model, chunklist, summaries, max_length, min_length, env)

\* a variant of summarizer_service.py:130-139 that returns the combined summary
\* whatever its length
CombineWithoutSecondPass(combined_summary, model, max_length, min_length, env, log) ==
    Return(combined_summary, log)

\* ' '.join(summaries), summarized again if longer than max_length
CombineSummaries(combined_summary, model, max_length, min_length, env, log) ==
    IF Len(combined_summary) > max_length
    THEN Generate(model, combined_summary, max_length, min_length, env, log)
    ELSE Return(combined_summary, log)

CombineChunks(r, model, max_length, min_length, env) ==
    IF ~r.ok THEN r
    ELSE CombineSummaries(Join(r.val, <<" ">>), model, max_length, min_length, env, r.log)

\* self.models.get(request.model, self.models['bart'])
ModelFor(model_name) == IF model_name \in models THEN model_name ELSE "bart"

abstractive_summarize(txt, model_name, max_length, min_length, env, log) ==
    IF "bart" \notin models THEN Raise("KeyError", log)
    ELSE IF Len(txt) > MaxChunkLength
    THEN CombineChunks(GenerateChunks(ModelFor(model_name), chunk_text(txt, MaxChunkLength),
                                      <<>>, max_length, min_length, env, log),
                       ModelFor(model_name), max_length, min_length, env)
    ELSE Generate(ModelFor(model_name), txt, max_length, min_length, env, log)

----------------------------------------------------------------------------
(* SummarizerService._hybrid_summarize *)

\* len(text.split('. '))
SplitCount(s) == 1 + Cardinality({i \in 1..(Len(s) - 1) : s[i] = "." /\ s[i+1] = " "})

Min(a, b) == IF a <= b THEN a ELSE b

\* summarizer_service.py:165-178: the abstractive request over the extractive summary
HybridAbstractive(extractive, req, env) ==
    IF ~extractive.ok THEN extractive
    ELSE IF ~ValidRequestFields(extractive.val, req.max_sentences, req.max_length,
                                req.min_length)
    THEN Raise("ValidationError", extractive.log)
    ELSE abstractive_summarize(extractive.val, req.model, req.max_length, req.min_length,
                               env, extractive.log)

\* summarizer_service.py:155-163: the extractive request with doubled limits
HybridExtractive(txt, expanded_sentences, expanded_length, req, env, log) ==
    IF ~ValidRequestFields(txt, expanded_sentences, expanded_length, req.min_length)
    THEN Raise("ValidationError", log)
    ELSE HybridAbstractive(extractive_summarize(txt, expanded_sentences, env, log), req, env)

\* a variant of the try block that hands the text to the generator at once
HybridGeneratingFirst(txt, req, env, log) ==
    abstractive_summarize(txt, req.model, req.max_length, req.min_length, env, log)

\* the try block of summarizer_service.py:154-178
HybridStages(txt, req, env, log) ==
    HybridExtractive(txt, Min(req.max_sentences * 2, SplitCount(txt)), req.max_length * 2,
                     req, env, log)

\* except Exception: return await self._extractive_summarize(text, request)
HybridFallback(staged, txt, req, env) ==
    IF staged.ok THEN staged
    ELSE extractive_summarize(txt, req.max_sentences, env, staged.log)

hybrid_summarize(txt, req, env, log) ==
    HybridFallback(HybridStages(txt, req, env, log), txt, req, env)

----------------------------------------------------------------------------
(* SummarizerService.summarize_text *)

\* a / b of Python: the fraction, or ZeroDivisionError
Divide(a, b) == IF b = 0 THEN [ok |-> FALSE, num |-> 0, den |-> 0]
                ELSE [ok |-> TRUE, num |-> a, den |-> b]

SummarizationResult(summary, req, original_length, summary_length, ratio) ==
    [summary |-> summary, method |-> req.method, model |-> req.model,
     original_length |-> original_length, summary_length |-> summary_length,
     compression_ratio |-> [num |-> ratio.num, den |-> ratio.den]]

\* summarizer_service.py:54-63: the dispatch on request.method
SummaryByMethod(processed_text, req, env, log) ==
    IF req.method = "extractive"
    THEN extractive_summarize(processed_text, req.max_sentences, env,
                              Dispatched(log, "_extractive_summarize", processed_text))
    ELSE IF req.method = "abstractive"
    THEN abstractive_summarize(processed_text, req.model, req.max_length, req.min_length,
                               env, Dispatched(log, "_abstractive_summarize", processed_text))
    ELSE hybrid_summarize(processed_text, req, env,
                          Dispatched(log, "_hybrid_summarize", processed_text))

\* the SummarizationResult built around a ratio, or the ZeroDivisionError of the
\* division
RatioResult(ratio, summary, req, original_length, summary_length, log) ==
    IF ~ratio.ok THEN Raise("ZeroDivisionError", log)
    ELSE Return(SummarizationResult(summary, req, original_length, summary_length, ratio),
                log)

\* a variant of the ratio at summarizer_service.py:68 without its guard
UnguardedDivide(summary_length, original_length) == Divide(summary_length, original_length)

\* summary_length / original_length if original_length > 0 else 0
GuardedRatio(summary_length, original_length) ==
    IF original_length > 0 THEN Divide(summary_length, original_length) ELSE Divide(0, 1)

\* summarizer_service.py:65-76
ServiceResult(summary, req, original_length) ==
    IF ~summary.ok THEN summary
    ELSE RatioResult(GuardedRatio(WordCount(summary.val), original_length), summary.val,
                     req, original_length, WordCount(summary.val), summary.log)

service_summarize_text(req, env, log) ==
    ServiceResult(SummaryByMethod(preprocess_text(req.text), req, env, log), req,
                  WordCount(req.text))

----------------------------------------------------------------------------
(* routers/summarizer.py *)

\* summarize_with_openai and summarize_with_cohere: summarizer_service.py never
\* imports os, so os.getenv raises NameError before the client is built; the
\* except clause re-raises it
summarize_with_openai(txt, req, log) == Raise("NameError", log)
summarize_with_cohere(txt, req, log) == Raise("NameError", log)

\* summary = result.summary
SummaryOf(result) ==
    IF result.ok THEN Return(result.val.summary, result.log) ELSE result

\* the dispatch on request.model of both routes; the value is the summary
DispatchByModel(txt, req, env, log) ==
    IF req.model = "openai"
    THEN summarize_with_openai(txt, req, Dispatched(log, "summarize_with_openai", txt))
    ELSE IF req.model = "cohere"
    THEN summarize_with_cohere(txt, req, Dispatched(log, "summarize_with_cohere", txt))
    ELSE SummaryOf(service_summarize_text(req, env, log))

\* the SummarizationResult both routes build:
\* compression_ratio=len(summary.split()) / len(request.text.split()), not guarded
RouteResult(txt, summary, req, log) ==
    RatioResult(Divide(WordCount(summary), WordCount(txt)), summary, req, WordCount(txt),
                WordCount(summary), log)

SummarizeResult(summary, req) ==
    IF ~summary.ok THEN summary
    ELSE RouteResult(req.text, summary.val, req, summary.log)

\* the try block of the /summarize handler
SummarizeBody(req, env) ==
    IF Len(Strip(req.text)) < MinTextChars THEN Raise("HTTPException400", <<>>)
    ELSE SummarizeResult(DispatchByModel(req.text, req, env, <<>>), req)

\* except Exception as e: raise HTTPException(status_code=500, detail=str(e))
RouteResponse(body) ==
    IF body.ok THEN [kind |-> "result", status |-> 200, error |-> "", body |-> body.val,
                     log |-> body.log]
    ELSE [kind |-> "error", status |-> 500, error |-> body.err, body |-> <<>>,
          log |-> body.log]

summarize_route(req, env) == RouteResponse(SummarizeBody(req, env))

MaxBatchTexts == 10

SingleRequest(txt, req) ==
    [text |-> txt, method |-> req.method, model |-> req.model,
     max_sentences |-> req.max_sentences, max_length |-> req.max_length,
     min_length |-> req.min_length]

\* the loop of the /batch handler from document i on
RECURSIVE BatchLoop(_, _, _, _, _)
RECURSIVE BatchAppend(_, _, _, _, _)

\* a variant of the loop that skips a failing document and goes on
BatchAppendSkipping(result, req, i, results, env) ==
    IF ~result.ok THEN BatchLoop(req, i + 1, results, env, result.log)
    ELSE BatchLoop(req, i + 1, Append(results, result.val), env, result.log)

\* a variant of the loop that puts each result in front of the earlier ones
BatchAppendInFront(result, req, i, results, env) ==
    IF ~result.ok THEN result
    ELSE BatchLoop(req, i + 1, <<result.val>> \o results, env, result.log)

BatchAppend(result, req, i, results, env) ==
    IF ~result.ok THEN result
    ELSE BatchLoop(req, i + 1, Append(results, result.val), env, result.log)

BatchResult(summary, txt, req) ==
    IF ~summary.ok THEN summary
    ELSE RouteResult(txt, summary.val, req, summary.log)

BatchDocument(txt, req, env, log) ==
    IF Len(Strip(txt)) < MinTextChars THEN Raise("HTTPException400", log)
    ELSE IF ~ValidRequestFields(txt, req.max_sentences, req.max_length, req.min_length)
    THEN Raise("ValidationError", log)
    ELSE BatchResult(DispatchByModel(txt, SingleRequest(txt, req), env, log), txt, req)

BatchLoop(req, i, results, env, log) ==
    IF i > Len(req.texts) THEN Return(results, log)
    ELSE BatchAppend(BatchDocument(req.texts[i], req, env, log), req, i, results, env)

\* the try block of the /batch handler
BatchBody(req, env) ==
    IF Len(req.texts) > MaxBatchTexts THEN Raise("HTTPException400", <<>>)
    ELSE BatchLoop(req, 1, <<>>, env, <<>>)

batch_summarize(req, env) == RouteResponse(BatchBody(req, env))

\* the constraints of BatchSummarizationRequest, which FastAPI checks before it
\* calls the handler: 1 to 10 texts, and the ranges of the three limits
ValidBatchRequest(req) ==
    /\ Len(req.texts) >= 1 /\ Len(req.texts) <= MaxBatchTexts
    /\ req.max_sentences >= MinMaxSentences /\ req.max_sentences <= MaxMaxSentences
    /\ req.max_length >= MinMaxLength /\ req.max_length <= MaxMaxLength
    /\ req.min_length >= MinMinLength /\ req.min_length <= MaxMinLength

\* a variant of the /batch route that checks nothing about the request as a whole
BatchRouteUnchecked(req, env) == RouteResponse(BatchLoop(req, 1, <<>>, env, <<>>))

\* POST /batch: the request model, then the handler
batch_route(req, env) ==
    IF ~ValidBatchRequest(req)
    THEN [kind |-> "error", status |-> 422, error |-> "RequestValidationError",
          body |-> <<>>, log |-> <<>>]
    ELSE batch_summarize(req, env)

\* a variant that gives each document the time since the reading before it
ElapsedSincePrevious(readings, n) == AsList([i \in 1..n |-> readings[i + 1] - readings[i]])

\* time.time() - start_time after each document, where the handler read
\* start_time first, the clock once after each document and once after the loop
ElapsedSinceStart(readings, n) == AsList([i \in 1..n |-> readings[i + 1] - readings[1]])

\* the processing_time of each result of a batch, in the order of body, and the
\* total_processing_time of the BatchSummarizationResult
Timed(resp, readings) ==
    IF resp.kind # "result" THEN resp
    ELSE [kind |-> resp.kind, status |-> resp.status, error |-> resp.error,
          body |-> resp.body, log |-> resp.log,
          processing_time |-> ElapsedSinceStart(readings, Len(resp.body)),
          total_processing_time |-> readings[Len(resp.body) + 2] - readings[1]]

\* a direct call of summarizer_service.summarize_text
ServiceResponse(result) ==
    IF result.ok THEN [kind |-> "result", status |-> 200, error |-> "", body |-> result.val,
                       log |-> result.log]
    ELSE [kind |-> "error", status |-> 0, error |-> result.err, body |-> <<>>,
          log |-> result.log]

----------------------------------------------------------------------------
(* Texts built from units: u1 sep u2 sep ... un *)

RECURSIVE TextsOf(_, _, _)
TextsOf(units, seps, n) ==
    IF n = 0 THEN {<<>>}
    ELSE LET shorter == TextsOf(units, seps, n - 1)
         IN  shorter \cup units
                     \cup {t \o sep \o u : t \in shorter \ {<<>>}, sep \in seps, u \in units}

----------------------------------------------------------------------------
(* Inputs of the chunker's specification: texts as _abstractive_summarize hands *)
(* them to chunk_text, without leading or trailing whitespace                    *)

MaxChunkUnits == 3
MaxChunkLimit == 6

ChunkUnits == {<<"a", "!">>, <<"a", "a", ".">>, <<"a", ".">>, <<"a", " ", "a", " ", "a", "!">>}
ChunkSeparators == {<<" ">>, <<" ", " ">>}

InitChunk ==
    /\ pc = "start"
    /\ text \in TextsOf(ChunkUnits, ChunkSeparators, MaxChunkUnits)
    /\ chunk_limit \in 0..MaxChunkLimit
    /\ processed = <<>>
    /\ reprocessed = <<>>
    /\ chunks = <<>>
    /\ models = {}
    /\ sentence_model = FALSE
    /\ request = NoRequest
    /\ answers = NoEnv
    /\ response = NoResponse
    /\ clock = <<>>

\* chunks = self.text_processor.chunk_text(text, max_chunk_length)
Chunk ==
    /\ pc = "start"
    /\ chunks' = chunk_text(text, chunk_limit)
    /\ pc' = "chunked"
    /\ UNCHANGED <<clock, text, processed, reprocessed, chunk_limit, models, sentence_model, request, answers, response>>

NextChunk == Chunk

SpecChunk == InitChunk /\ [][NextChunk]_vars

----------------------------------------------------------------------------
(* Inputs of the normalizer's specification *)

MaxTextLen == 5

NormalizerAlphabet == {" ", "\n", "a", "B", ".", "@", "("}

RECURSIVE StringsUpTo(_, _)
StringsUpTo(alphabet, n) ==
    IF n = 0 THEN {<<>>}
    ELSE LET shorter == StringsUpTo(alphabet, n - 1)
         IN  shorter \cup {Append(s, c) : s \in {t \in shorter : Len(t) = n - 1}, c \in alphabet}

InitNormalize ==
    /\ pc = "start"
    /\ text \in StringsUpTo(NormalizerAlphabet, MaxTextLen)
    /\ processed = <<>>
    /\ reprocessed = <<>>
    /\ chunk_limit = 0
    /\ chunks = <<>>
    /\ models = {}
    /\ sentence_model = FALSE
    /\ request = NoRequest
    /\ answers = NoEnv
    /\ response = NoResponse
    /\ clock = <<>>

\* normalized = preprocess_text(text)
Preprocess ==
    /\ pc = "start"
    /\ processed' = preprocess_text(text)
    /\ pc' = "normalized"
    /\ UNCHANGED <<clock, text, reprocessed, chunk_limit, chunks, models, sentence_model, request, answers, response>>

\* preprocess_text applied to its own output
PreprocessAgain ==
    /\ pc = "normalized"
    /\ reprocessed' = preprocess_text(processed)
    /\ pc' = "renormalized"
    /\ UNCHANGED <<clock, text, processed, chunk_limit, chunks, models, sentence_model, request, answers, response>>

NextNormalize == Preprocess \/ PreprocessAgain

SpecNormalize == InitNormalize /\ [][NextNormalize]_vars

----------------------------------------------------------------------------
(* The service and its routes: one call per behaviour, on a service whose      *)
(* _load_models got through some of its four loads before an exception ended it *)

DefaultMaxLength == 150
DefaultMinLength == 50

WordLen == 24
PadLen == 26
MaxUnits == 3
MaxSentencesArg == 2
MaxBatchLen == 2

Word == [i \in 1..WordLen |-> "x"]
Spaces(n) == [i \in 1..n |-> " "]

\* sentences that end in "." and inside a token ("!" before "("), and a word that
\* preprocess_text deletes
ServiceUnits == {Word \o <<".">>, Word \o <<"!", "(">>, <<"@">>}
ServiceTexts ==
    TextsOf(ServiceUnits, {<<" ">>}, MaxUnits) \cup {Spaces(PadLen) \o Spaces(PadLen)}

GenerativeTexts == TextsOf({Word \o <<".">>, Word \o <<"!">>}, {<<" ">>}, MaxUnits)

\* a text longer than max_chunk_length, for the chunking branch of
\* _abstractive_summarize: three sentences of one long word each, two of which fit
\* into a chunk
LongSentenceLen == MaxChunkLength \div 2 - WordLen
LongSentence == AsList([i \in 1..LongSentenceLen |-> IF i = LongSentenceLen THEN "." ELSE "x"])
LongText == LongSentence \o <<" ">> \o LongSentence \o <<" ">> \o LongSentence

ThreeSentences == Word \o <<"!", " ">> \o Word \o <<".", " ">> \o Word \o <<"!">>
RouteCores == {<<>>, Word, ThreeSentences}
RouteTexts ==
    {Spaces(a) \o t \o Spaces(b) : t \in RouteCores, a \in {0, PadLen}, b \in {0, PadLen}}
BatchTexts == {Word \o Spaces(PadLen), ThreeSentences}

\* the requests over the given values that the request model accepts
RequestsWith(texts, methods, modelnames, sentence_limits, max_lengths, min_lengths) ==
    {r \in [text : texts, method : methods, model : modelnames,
            max_sentences : sentence_limits,
            max_length : max_lengths, min_length : min_lengths] :
        ValidRequestFields(r.text, r.max_sentences, r.max_length, r.min_length)}

\* requests with the default max_length and min_length
RequestsOver(texts, methods, modelnames, sentence_limits) ==
    RequestsWith(texts, methods, modelnames, sentence_limits,
                 {DefaultMaxLength}, {DefaultMinLength})

\* requests with the least max_length and the greatest min_length of the request
\* model: min_length > max_length
InvertedRequests ==
    RequestsWith({ThreeSentences}, Methods, {"bart"}, {1}, {MinMaxLength}, {MaxMinLength})

\* one sentence of one word more than the least max_length: "x x ... x."
WordyLen == 2 * (MinMaxLength + 1)
WordyText ==
    AsList([i \in 1..WordyLen |-> IF i = WordyLen THEN "."
                                  ELSE IF i % 2 = 1 THEN "x" ELSE " "])

\* the requests of a direct call of the service
ServiceRequests ==
    RequestsOver(ServiceTexts, {"extractive"}, {"bart"}, 1..MaxSentencesArg)
    \cup RequestsOver(GenerativeTexts, {"abstractive"}, {"bart", "t5"}, {1})
    \cup RequestsOver(GenerativeTexts, {"hybrid"}, {"bart"}, {1, MaxSentencesArg})
    \cup RequestsWith({LongText}, {"abstractive"}, {"bart"}, {1},
                      {MinMaxLength, DefaultMaxLength}, {DefaultMinLength})
    \cup RequestsWith({WordyText}, {"extractive"}, {"bart"}, {1},
                      {MinMaxLength}, {DefaultMinLength})

\* the requests FastAPI hands to the /summarize handler
RouteRequests ==
    RequestsOver(RouteTexts, Methods, LocalModels \cup RemoteModels, {1})
    \cup InvertedRequests

\* one text more than the request model allows
OverLimitBatches == {[i \in 1..(MaxBatchTexts + 1) |-> t] : t \in BatchTexts}

\* the requests posted to /batch
BatchRequests ==
    [texts : UNION {[1..n -> BatchTexts] : n \in 1..MaxBatchLen} \cup OverLimitBatches,
     method : Methods, model : {"bart", "openai"},
     max_sentences : {1},
     max_length : {DefaultMaxLength}, min_length : {DefaultMinLength}]

\* one-dimensional embeddings: the scores of a document take two values, the
\* higher one held by a minority or a majority of the sentences, or are all equal
EmbeddingVectors == {<<-1>>, <<3>>}
\* what a generator call can do: raise, return a text of its own, or return a
\* sentence of its input
GeneratorOutcomes ==
    {[ok |-> FALSE, text |-> <<>>],
     [ok |-> TRUE, text |-> <<"A", " ", "b", ".">>],
     [ok |-> TRUE, text |-> Word \o <<".">>]}

\* the answers of the embedding model for n sentences and of the generators for g
\* calls; none where the service holds no such model
Environments(n, g) ==
    [embeddings : [1..(IF sentence_model THEN n ELSE 0) -> EmbeddingVectors],
     generated : [1..(IF "bart" \in models THEN g ELSE 0) -> GeneratorOutcomes]]

\* the environments in which every generator call gets the same answer
ConstantAnswers(n, g) ==
    {[embeddings |-> vectors,
      generated |-> AsList([i \in 1..(IF "bart" \in models THEN g ELSE 0) |-> outcome])] :
        vectors \in [1..(IF sentence_model THEN n ELSE 0) -> EmbeddingVectors],
        outcome \in GeneratorOutcomes}

SentenceCount(txt) == Len(sent_tokenize(preprocess_text(txt)))

\* the sentences a call can score and the generator calls it can make
ScoredOf(method, model, n, max_sentences) ==
    IF method = "abstractive" \/ model \in RemoteModels THEN 0
    ELSE IF method = "extractive" /\ n <= max_sentences THEN 0
    ELSE n
Scored(method, model, txt, max_sentences) ==
    ScoredOf(method, model, SentenceCount(txt), max_sentences)
Generated(method, model) ==
    IF method = "extractive" \/ model \in RemoteModels THEN 0 ELSE 1
\* one call per chunk of a text longer than max_chunk_length, and one for the
\* combined summary
GeneratedOver(method, model, processed_text) ==
    IF Generated(method, model) = 0 THEN 0
    ELSE IF Len(processed_text) > MaxChunkLength
    THEN Len(chunk_text(processed_text, MaxChunkLength)) + 1
    ELSE 1
GeneratedFor(method, model, txt) == GeneratedOver(method, model, preprocess_text(txt))

\* _load_models: bart, t5, pegasus, then the sentence model, until one load raises
ModelsLoaded(stage) ==
    IF stage = 0 THEN {}
    ELSE IF stage = 1 THEN {"bart"}
    ELSE IF stage = 2 THEN {"bart", "t5"}
    ELSE LocalModels

Init ==
    /\ pc = "start"
    /\ \E stage \in 0..4 :
          /\ models = ModelsLoaded(stage)
          /\ sentence_model = (stage = 4)
    /\ text = <<>>
    /\ processed = <<>>
    /\ reprocessed = <<>>
    /\ chunk_limit = 0
    /\ chunks = <<>>
    /\ request = NoRequest
    /\ answers = NoEnv
    /\ response = NoResponse
    /\ clock = <<>>

\* await summarizer_service.summarize_text(request)
ServiceSummarize ==
    /\ pc = "start"
    /\ \E req \in ServiceRequests :
       \E e \in Environments(Scored(req.method, req.model, req.text, req.max_sentences),
                             GeneratedFor(req.method, req.model, req.text)) :
          /\ request' = [kind |-> "service", args |-> req]
          /\ answers' = e
          /\ response' = ServiceResponse(service_summarize_text(req, e, <<>>))
    /\ pc' = "done"
    /\ UNCHANGED <<clock, text, processed, reprocessed, chunk_limit, chunks, models, sentence_model>>

\* POST /summarize
Summarize ==
    /\ pc = "start"
    /\ \E req \in RouteRequests :
       \E e \in Environments(Scored(req.method, req.model, req.text, req.max_sentences),
                             Generated(req.method, req.model)) :
          /\ request' = [kind |-> "summarize", args |-> req]
          /\ answers' = e
          /\ response' = summarize_route(req, e)
    /\ pc' = "done"
    /\ UNCHANGED <<clock, text, processed, reprocessed, chunk_limit, chunks, models, sentence_model>>

\* time.time() is the system clock: a reading can be lower than an earlier one
\* when the clock was set back between the two
ClockValues == {0, 1}

\* a call that is over before the clock ticks
FrozenClock == {0}

\* the readings that reach the response: start_time, one after each document and
\* one after the loop; a call that raises returns none of them
ClockReadings(resp, values) ==
    IF resp.kind # "result" THEN {<<>>}
    ELSE {AsList(f) : f \in [1..(Len(resp.body) + 2) -> values]}

\* a handler call under each clock
TimedRuns(resp, values) ==
    {[clock |-> readings, response |-> Timed(resp, readings)] :
        readings \in ClockReadings(resp, values)}

\* the answers of the models to a batch: any for a batch of up to MaxBatchLen
\* texts, the same answer to each document of a longer one
BatchAnswers(req) ==
    IF Len(req.texts) <= MaxBatchLen
    THEN Environments(Scored(req.method, req.model, ThreeSentences, req.max_sentences),
                      Len(req.texts) * Generated(req.method, req.model))
    ELSE ConstantAnswers(Scored(req.method, req.model, ThreeSentences, req.max_sentences),
                         Len(req.texts) * Generated(req.method, req.model))

\* POST /batch, each call over before the clock ticks
BatchSummarize ==
    /\ pc = "start"
    /\ \E req \in BatchRequests :
       \E e \in BatchAnswers(req) :
       \E run \in TimedRuns(batch_route(req, e), FrozenClock) :
          /\ request' = [kind |-> "batch", args |-> req]
          /\ answers' = e
          /\ clock' = run.clock
          /\ response' = run.response
    /\ pc' = "done"
    /\ UNCHANGED <<text, processed, reprocessed, chunk_limit, chunks, models, sentence_model>>

Next == ServiceSummarize \/ Summarize \/ BatchSummarize

Spec == Init /\ [][Next]_vars

----------------------------------------------------------------------------
(* POST /batch under a clock that ticks, stands still or is set back between *)
(* two readings                                                              *)

TimedBatchRequests ==
    [texts : UNION {[1..n -> BatchTexts] : n \in 1..MaxBatchLen},
     method : {"extractive"}, model : {"bart"},
     max_sentences : {1},
     max_length : {DefaultMaxLength}, min_length : {DefaultMinLength}]

\* POST /batch, under every sequence of readings
BatchSummarizeTimed ==
    /\ pc = "start"
    /\ \E req \in TimedBatchRequests :
       \E e \in BatchAnswers(req) :
       \E run \in TimedRuns(batch_route(req, e), ClockValues) :
          /\ request' = [kind |-> "batch", args |-> req]
          /\ answers' = e
          /\ clock' = run.clock
          /\ response' = run.response
    /\ pc' = "done"
    /\ UNCHANGED <<text, processed, reprocessed, chunk_limit, chunks, models, sentence_model>>

NextBatchClock == BatchSummarizeTimed

SpecBatchClock == Init /\ [][NextBatchClock]_vars

----------------------------------------------------------------------------
(* main_fixed.py: the simplified /api/v1/summarize/summarize route, an app of  *)
(* its own with a request model without field constraints                       *)

SentenceTerminators == {".", "!", "?"}

\* the maximal runs of characters outside seps, in order
RunStarts(s, seps) == {i \in 1..Len(s) : s[i] \notin seps /\ (i = 1 \/ s[i-1] \in seps)}
RunFrom(s, seps, i) ==
    SubSeq(s, i, CHOOSE j \in i..Len(s) :
                    /\ j = Len(s) \/ s[j+1] \in seps
                    /\ \A m \in i..(j-1) : s[m+1] \notin seps)
RunsAt(s, seps, starts) ==
    AsList([r \in 1..Cardinality(starts) |->
              RunFrom(s, seps, CHOOSE i \in starts : Cardinality({j \in starts : j < i}) = r - 1)])
Runs(s, seps) == RunsAt(s, seps, RunStarts(s, seps))

\* str.split()
Split(s) == Runs(s, Whitespace)

IsNonEmpty(s) == s # <<>>
StripAll(strs) == AsList([i \in 1..Len(strs) |-> Strip(strs[i])])

\* [s.strip() for s in re.split(r'[.!?]+', text) if s.strip()]
SimpleSentences(s) == SelectSeq(StripAll(Runs(s, SentenceTerminators)), IsNonEmpty)

\* xs[:k] for any integer k
Prefix(xs, k) ==
    IF k >= 0 THEN Take(xs, k)
    ELSE IF Len(xs) + k > 0 THEN SubSeq(xs, 1, Len(xs) + k) ELSE <<>>

\* main_fixed.py:79-83
SimpleSelect(txt, sentences, max_sentences) ==
    IF Len(sentences) <= max_sentences THEN txt
    ELSE Join(Prefix(sentences, max_sentences), <<".", " ">>) \o <<".">>

\* main_fixed.py:87-88
SimpleTruncate(summary, summary_words, max_length) ==
    IF Len(summary_words) > max_length
    THEN Join(Prefix(summary_words, max_length), <<" ">>)
    ELSE summary

\* main_fixed.py:86-100: summary_words is split off before the truncation
SimpleResult(summary, summary_words, words, req) ==
    SummarizationResult(SimpleTruncate(summary, summary_words, req.max_length), req,
                        Len(words), Len(summary_words),
                        IF Len(words) > 0 THEN Divide(Len(summary_words), Len(words))
                        ELSE Divide(0, 1))

SimpleSummary(txt, req) ==
    SimpleResult(SimpleSelect(txt, SimpleSentences(txt), req.max_sentences),
                 Split(SimpleSelect(txt, SimpleSentences(txt), req.max_sentences)),
                 Split(txt), req)

simple_summarize_text(req) ==
    [kind |-> "result", status |-> 200, error |-> "", body |-> SimpleSummary(Strip(req.text), req),
     log |-> <<>>]

MaxSimpleLen == 5
MaxSimpleSentences == 2
MaxSimpleLength == 2

SimpleAlphabet == {"a", " ", ".", "!"}

SimpleRequests ==
    [text : StringsUpTo(SimpleAlphabet, MaxSimpleLen), method : {"extractive"},
     model : {"basic"}, max_sentences : 0..MaxSimpleSentences,
     max_length : (0 - 1)..MaxSimpleLength, min_length : {DefaultMinLength}]

InitSimple ==
    /\ pc = "start"
    /\ text = <<>>
    /\ processed = <<>>
    /\ reprocessed = <<>>
    /\ chunk_limit = 0
    /\ chunks = <<>>
    /\ models = {}
    /\ sentence_model = FALSE
    /\ request = NoRequest
    /\ answers = NoEnv
    /\ response = NoResponse
    /\ clock = <<>>

\* POST /api/v1/summarize/summarize of main_fixed.py
SimpleSummarize ==
    /\ pc = "start"
    /\ \E req \in SimpleRequests :
          /\ request' = [kind |-> "simple", args |-> req]
          /\ response' = simple_summarize_text(req)
    /\ pc' = "done"
    /\ UNCHANGED <<clock, text, processed, reprocessed, chunk_limit, chunks, models, sentence_model,
                   answers>>

NextSimple == SimpleSummarize

SpecSimple == InitSimple /\ [][NextSimple]_vars

----------------------------------------------------------------------------
(* _calculate_sentence_scores on its own: the embeddings of up to MaxScored
   sentences, then one call *)

MaxScored == 3

\* the rows sentence_model.encode may return: two-dimensional vectors, among them
\* the zero vector and pairs with a negative dot product
ScoreVectors == {<<0, 0>>, <<1, 0>>, <<0 - 1, 0>>, <<1, 1>>, <<1, 0 - 2>>}

EmbeddingsOf(n) == {AsList(f) : f \in [1..n -> ScoreVectors]}

ScoreInputs == UNION {EmbeddingsOf(n) : n \in 1..MaxScored}

InitScores ==
    /\ pc = "start"
    /\ text = <<>>
    /\ processed = <<>>
    /\ reprocessed = <<>>
    /\ chunk_limit = 0
    /\ chunks = <<>>
    /\ models = {}
    /\ sentence_model = TRUE
    /\ request = NoRequest
    /\ answers \in {[embeddings |-> em, generated |-> <<>>] : em \in ScoreInputs}
    /\ response = NoResponse
    /\ clock = <<>>

\* self._calculate_sentence_scores(embeddings)
CalculateSentenceScores ==
    /\ pc = "start"
    /\ response' = [kind |-> "scores", body |-> calculate_sentence_scores(answers.embeddings)]
    /\ pc' = "scored"
    /\ UNCHANGED <<clock, text, processed, reprocessed, chunk_limit, chunks, models, sentence_model,
                   request, answers>>

NextScores == CalculateSentenceScores

SpecScores == InitScores /\ [][NextScores]_vars

----------------------------------------------------------------------------
(* Claims about preprocess_text *)

HasDoubleWhitespace(s) == \E i \in 1..(Len(s) - 1) : IsSpace(s[i]) /\ IsSpace(s[i+1])

\* C1: preprocess_text is idempotent: preprocess_text(preprocess_text(t)) =
\* preprocess_text(t) for every input t.
C1_Idempotent == pc = "renormalized" => reprocessed = processed

\* C2: the output of preprocess_text never contains two consecutive whitespace
\* characters.
C2_CollapsedWhitespace == pc = "normalized" => ~HasDoubleWhitespace(processed)

\* C3: a non-empty output of preprocess_text never begins with a lowercase letter.
C3_StartsUppercase ==
    pc = "normalized" /\ Len(processed) > 0 => ~IsLower(processed[1])

----------------------------------------------------------------------------
(* Claims about chunk_text *)

\* ' '.join(strs)
JoinWithSpace(strs) ==
    LET F[i \in 0..Len(strs)] ==
            IF i = 0 THEN <<>>
            ELSE IF i = 1 THEN strs[1]
            ELSE F[i-1] \o <<" ">> \o strs[i]
    IN  F[Len(strs)]

\* chs[j] is the space-joined run of the next k_j >= 1 sentences, for every j, and
\* the runs use up the sentences; with bounded, a run of several sentences has at
\* most limit characters
RECURSIVE IsRunPartition(_, _, _, _)
IsRunPartition(chs, sents, bounded, limit) ==
    IF chs = <<>> THEN sents = <<>>
    ELSE \E k \in 1..Len(sents) :
            /\ chs[1] = JoinWithSpace(SubSeq(sents, 1, k))
            /\ (bounded => Len(chs[1]) <= limit \/ k = 1)
            /\ IsRunPartition(Tail(chs), SubSeq(sents, k + 1, Len(sents)), bounded, limit)

\* C4: chunk_text never splits or drops a sentence: every chunk is a space-joined
\* run of consecutive whole sentences, the chunks joined with a space are the
\* sentences joined with a space, in order, and no chunk is empty.
C4_ChunksAreSentenceRuns ==
    pc = "chunked" =>
        /\ IsRunPartition(chunks, sent_tokenize(text), FALSE, 0)
        /\ JoinWithSpace(chunks) = JoinWithSpace(sent_tokenize(text))
        /\ \A j \in 1..Len(chunks) : chunks[j] # <<>>

\* a state where chunk_text closed a chunk of several sentences and opened another
C4_Witness ==
    /\ pc = "chunked"
    /\ Len(chunks) >= 2
    /\ Len(sent_tokenize(text)) > Len(chunks)

\* C5: every chunk has at most max_length characters, unless it consists of
\* exactly one sentence that alone is longer than max_length.
C5_ChunkLengthBound ==
    pc = "chunked" => IsRunPartition(chunks, sent_tokenize(text), TRUE, chunk_limit)

\* a state with an oversized one-sentence chunk next to a chunk of two sentences
C5_Witness ==
    /\ pc = "chunked"
    /\ \E j \in 1..Len(chunks) : Len(chunks[j]) > chunk_limit
    /\ \E j \in 1..Len(chunks) : Len(chunks[j]) <= chunk_limit /\ chunks[j] \notin
            {sent_tokenize(text)[i] : i \in 1..Len(sent_tokenize(text))}

----------------------------------------------------------------------------
(* Claims about extractive selection, on direct calls of the service *)

ExtractiveCall ==
    pc = "done" /\ request.kind = "service" /\ request.args.method = "extractive"

LogHasEncode(log) == \E i \in 1..Len(log) : log[i].op = "encode"

\* the sentences of the normalized text of the request
RequestSentences == sent_tokenize(preprocess_text(request.args.text))

\* the scores of the sentences under the embeddings the model answered
RequestScores == calculate_sentence_scores(answers.embeddings)

\* sentence i is scored higher than sentence j, or equally with a lower index
Outranks(scores, i, j) ==
    \/ ScoreLess(scores[j], scores[i])
    \/ ~ScoreLess(scores[i], scores[j]) /\ i < j

\* the k best of the n scored sentences
IsTopSet(S, scores, k) ==
    /\ Cardinality(S) = k
    /\ \A i \in S : \A j \in (1..Len(scores)) \ S : Outranks(scores, i, j)

\* the members of a set of indices in ascending order
Ascending(S) ==
    AsList([r \in 1..Cardinality(S) |->
              CHOOSE x \in S : Cardinality({y \in S : y < x}) = r - 1])

SentencesAt(sentences, indices) ==
    AsList([r \in 1..Len(indices) |-> sentences[indices[r]]])

\* the selected sentences joined with ". "
JoinedSelection(sentences, S) == Join(SentencesAt(sentences, Ascending(S)), <<".", " ">>)

\* C6: when the normalized text has at most max_sentences sentences, the
\* extractive summary is the normalized text, unchanged, and the embedding model
\* is not called.
C6_ShortTextReturned ==
    ExtractiveCall /\ Len(RequestSentences) <= request.args.max_sentences =>
        /\ response.kind = "result"
        /\ response.body.summary = preprocess_text(request.args.text)
        /\ ~LogHasEncode(response.log)

\* a text of exactly max_sentences = 2 sentences, one of them changed by
\* preprocess_text, returned while no embedding model is loaded
C6_Witness ==
    /\ ExtractiveCall
    /\ request.args.max_sentences = 2
    /\ Len(RequestSentences) = 2
    /\ preprocess_text(request.args.text) # request.args.text
    /\ ~sentence_model
    /\ response.kind = "result"
    /\ response.body.summary = preprocess_text(request.args.text)

\* C7: when the normalized text has more than max_sentences sentences (and the
\* embedding model is loaded), the summary consists of exactly max_sentences
\* sentences, those with the highest scores, a tie at the cut-off being won by the
\* lower index, joined in ascending index order.
C7_TopSentencesInOrder ==
    ExtractiveCall /\ sentence_model
                   /\ Len(RequestSentences) > request.args.max_sentences =>
        /\ response.kind = "result"
        /\ \E S \in SUBSET (1..Len(RequestSentences)) :
              /\ IsTopSet(S, RequestScores, request.args.max_sentences)
              /\ response.body.summary = JoinedSelection(RequestSentences, S)

\* two sentences selected out of three where the best one is the second and the
\* first wins the tie with the third
C7_Witness ==
    /\ ExtractiveCall /\ sentence_model
    /\ request.args.max_sentences = 2
    /\ Len(RequestSentences) = 3
    /\ ScoreLess(RequestScores[1], RequestScores[2])
    /\ ~ScoreLess(RequestScores[1], RequestScores[3])
    /\ ~ScoreLess(RequestScores[3], RequestScores[1])
    /\ response.kind = "result"
    /\ response.body.summary = JoinedSelection(RequestSentences, {1, 2})

\* C8: when a proper subset of the sentences is selected, the summary ends with a
\* terminal period, whatever the last selected sentence ends with.
C8_EndsWithPeriod ==
    ExtractiveCall /\ sentence_model
                   /\ Len(RequestSentences) > request.args.max_sentences =>
        /\ response.kind = "result"
        /\ Len(response.body.summary) > 0
        /\ response.body.summary[Len(response.body.summary)] = "."

\* C9: the word count of an extractive summary never exceeds the word count of
\* the raw input text.
C9_ExtractiveNeverExpands ==
    ExtractiveCall /\ response.kind = "result" =>
        response.body.summary_length <= response.body.original_length

----------------------------------------------------------------------------
(* Claims about the compression ratio *)

RatioIsZero(result) == result.compression_ratio.num = 0 /\ result.compression_ratio.den > 0

\* C10: no call of the service, of /summarize or of /batch ends in a division by
\* zero, and a result of the service for a text without words has ratio 0.
C10_NoDivisionByZero ==
    pc = "done" =>
        /\ response.error # "ZeroDivisionError"
        /\ (request.kind = "service" /\ response.kind = "result"
                /\ response.body.original_length = 0 => RatioIsZero(response.body))
        /\ (request.kind = "summarize" /\ response.kind = "result" =>
                response.body.original_length > 0 /\ response.body.compression_ratio.den > 0)
        /\ (request.kind = "batch" /\ response.kind = "result" =>
                \A i \in 1..Len(response.body) :
                    /\ response.body[i].original_length > 0
                    /\ response.body[i].compression_ratio.den > 0)

\* the service summarized a text of whitespace only: no words, ratio 0
C10_Witness ==
    /\ pc = "done" /\ request.kind = "service"
    /\ WordCount(request.args.text) = 0
    /\ response.kind = "result"
    /\ response.body.original_length = 0
    /\ RatioIsZero(response.body)

----------------------------------------------------------------------------
(* Claims about the results *)

\* C11: in every returned SummarizationResult, summary_length is the number of
\* whitespace-delimited words of the summary returned in it, also when the
\* summary was truncated to max_length words.
C11_SummaryLengthIsWordCount ==
    pc = "done" /\ request.kind = "simple" /\ response.kind = "result" =>
        response.body.summary_length = WordCount(response.body.summary)

----------------------------------------------------------------------------
(* Claims about the hybrid fallback and about failures of the generators *)

HybridCall ==
    pc = "done" /\ request.kind = "service" /\ request.args.method = "hybrid"

\* what the try block of _hybrid_summarize came to in the call of the state
StagedOutcome ==
    HybridStages(preprocess_text(request.args.text), request.args, answers, <<>>)

\* the abstractive stage of the call was entered and raised
GenerativeStageFailed ==
    /\ ~StagedOutcome.ok
    /\ StagedOutcome.err \in {"GeneratorError", "KeyError"}

\* _extractive_summarize on the normalized text with the request's own
\* max_sentences
PlainExtractive ==
    extractive_summarize(preprocess_text(request.args.text), request.args.max_sentences,
                         answers, <<>>)

\* C12: a hybrid call whose generative stage fails raises no exception and returns
\* exactly the output of extractive selection on the same text with the original,
\* unexpanded request parameters.
C12_FallbackReturnsExtractive ==
    HybridCall /\ GenerativeStageFailed =>
        /\ response.kind = "result"
        /\ PlainExtractive.ok
        /\ response.body.summary = PlainExtractive.val

\* C12 on a service whose sentence model is loaded
C12_FallbackWithSentenceModel ==
    HybridCall /\ GenerativeStageFailed /\ sentence_model =>
        /\ response.kind = "result"
        /\ PlainExtractive.ok
        /\ response.body.summary = PlainExtractive.val

\* what a caller of the service gets from a call: the outcome and the result. The
\* service writes no log entry on any path of summarize_text; the log of the
\* response records the calls made to the models, which the caller does not see
Observable(resp) ==
    [kind |-> resp.kind, status |-> resp.status, error |-> resp.error, body |-> resp.body]

\* the hybrid call of the state returned the output of the except clause
FellBack == HybridCall /\ ~StagedOutcome.ok /\ response.kind = "result"

\* the same request on the same service under other answers of the models
RunUnder(e) == ServiceResponse(service_summarize_text(request.args, e, <<>>))
StagesUnder(e) == HybridStages(preprocess_text(request.args.text), request.args, e, <<>>)

\* C13: whenever the hybrid path falls back to the extractive output, the run can
\* be told apart from every run of the same request in which the generative stage
\* succeeded: what the caller observes differs.
C13_FallbackObservable ==
    FellBack =>
        \A e \in Environments(Len(answers.embeddings), Len(answers.generated)) :
            StagesUnder(e).ok => Observable(RunUnder(e)) # Observable(response)

\* a call with method "abstractive" on a local model, directly or through a route
AbstractiveCall ==
    /\ pc = "done" /\ request.kind \in {"service", "summarize"}
    /\ request.args.method = "abstractive" /\ request.args.model \in LocalModels

\* a call of a generator made by the call of the state raised
GeneratorFailed ==
    \E k \in 1..GeneratorCalls(response.log) : ~answers.generated[k].ok

\* C14: when a generator call of a pure abstractive request fails, the call ends in
\* an error and carries no summary: never an empty or a substitute one.
C14_AbstractiveFailurePropagates ==
    AbstractiveCall /\ GeneratorFailed =>
        /\ response.kind = "error"
        /\ response.error = "GeneratorError"
        /\ response.body = <<>>

\* the generator summarized the first chunk of a long text and raised on the
\* second, and the call of the service ended in that error
C14_Witness ==
    /\ AbstractiveCall /\ request.kind = "service"
    /\ GeneratorCalls(response.log) = 2
    /\ answers.generated[1].ok /\ ~answers.generated[2].ok
    /\ response.kind = "error"

----------------------------------------------------------------------------
(* Claims about the routes *)

\* the calls of a log made to the remote providers, to the embedding model and to
\* the local generators
ProviderCalls(log) == Cardinality({i \in 1..Len(log) : log[i].op \in RemoteModels})
LocalCalls(log) == Cardinality({i \in 1..Len(log) : log[i].op \in {"encode", "generate"}})

\* a route was called for a remote provider and its first document passed the
\* checks made before the dispatch on request.model
RemoteSummarize ==
    /\ pc = "done" /\ request.kind = "summarize"
    /\ request.args.model \in RemoteModels
    /\ Len(Strip(request.args.text)) >= MinTextChars
RemoteBatch ==
    /\ pc = "done" /\ request.kind = "batch"
    /\ request.args.model \in RemoteModels
    /\ Len(Strip(request.args.texts[1])) >= MinTextChars
    /\ Len(request.args.texts[1]) >= MinTextChars

\* C15: for a remote provider the method is ignored: whatever the method, the
\* single route makes exactly one call to the provider, the batch route makes one
\* for its first document, and no call goes to the embedding model or to a local
\* generator.
C15_RemoteShortCircuits ==
    /\ RemoteSummarize => ProviderCalls(response.log) = 1 /\ LocalCalls(response.log) = 0
    /\ RemoteBatch => ProviderCalls(response.log) >= 1 /\ LocalCalls(response.log) = 0

\* the part of C15 about the local engines: a route called for a remote provider
\* calls neither the embedding model nor a local generator, whatever the method
C15_RemoteMakesNoLocalCall ==
    RemoteSummarize \/ RemoteBatch => LocalCalls(response.log) = 0

\* the dispatches of a call, in order; a route dispatches once for each document it
\* gets to
IsDispatch(event) == event.op = "dispatch"
Dispatches(log) == SelectSeq(log, IsDispatch)

\* the text of the i-th document of the request
DocumentText(i) ==
    IF request.kind = "batch" THEN request.args.texts[i] ELSE request.args.text

\* C16: on every path, the remote providers included, the text handed to the
\* strategy or provider method a document is dispatched to is the normalized text
\* of that document.
C16_DispatchGetsNormalizedText ==
    pc = "done" =>
        \A i \in 1..Len(Dispatches(response.log)) :
            Dispatches(response.log)[i].input = preprocess_text(DocumentText(i))

\* C16 on the paths through summarize_text: the strategies of the service get the
\* normalized text
C16_ServiceDispatchGetsNormalizedText ==
    pc = "done" /\ request.args.model \notin RemoteModels =>
        \A i \in 1..Len(Dispatches(response.log)) :
            Dispatches(response.log)[i].input = preprocess_text(DocumentText(i))

----------------------------------------------------------------------------
(* Claims about the batch route *)

BatchCall == pc = "done" /\ request.kind = "batch"

\* C17: a batch of more than 10 documents is rejected before any document is
\* validated or summarized: the answer is the rejection of the request, no
\* document is dispatched and no model or provider is called.
C17_OverLimitBatchRejectedFirst ==
    BatchCall /\ Len(request.args.texts) > MaxBatchTexts =>
        /\ response.kind = "error"
        /\ response.error = "RequestValidationError"
        /\ response.body = <<>>
        /\ response.log = <<>>

\* a batch of 11 texts, each of which the loop would summarize, was rejected
C17_Witness ==
    /\ BatchCall /\ Len(request.args.texts) = MaxBatchTexts + 1
    /\ request.args.texts[1] = ThreeSentences
    /\ request.args.model = "bart" /\ "bart" \in models /\ sentence_model
    /\ response.kind = "error"
    /\ response.log = <<>>

\* a batch the request model accepts
AcceptedBatch == BatchCall /\ ValidBatchRequest(request.args)

\* the positions of the documents shorter than 50 characters after trimming
ShortDocuments ==
    {k \in 1..Len(request.args.texts) : Len(Strip(request.args.texts[k])) < MinTextChars}

\* C18: when a document of a batch, at whatever position, is shorter than 50
\* characters after trimming, the error is raised before any pipeline work: no
\* document of the batch has been dispatched and no model has been called.
C18_ShortDocumentRejectedFirst ==
    AcceptedBatch /\ ShortDocuments # {} =>
        /\ response.kind = "error"
        /\ response.log = <<>>

\* the part of C18 that holds: a batch with a short document ends in an error
C18_ShortDocumentFailsBatch ==
    AcceptedBatch /\ ShortDocuments # {} => response.kind = "error"

\* the documents of the batch taken one after the other, each on the log the one
\* before it left, whether that one failed or not
RECURSIVE DocumentRunsAfter(_, _)
RECURSIVE DocumentRunsNext(_, _)
DocumentRunsAfter(runs, log) ==
    IF Len(runs) = Len(request.args.texts) THEN runs
    ELSE DocumentRunsNext(runs, BatchDocument(request.args.texts[Len(runs) + 1],
                                              request.args, answers, log))
DocumentRunsNext(runs, run) == DocumentRunsAfter(Append(runs, run), run.log)
DocumentRuns == DocumentRunsAfter(<<>>, <<>>)

FailingDocuments(runs) == {k \in 1..Len(runs) : ~runs[k].ok}
FirstOf(positions) == CHOOSE k \in positions : \A j \in positions : k <= j

\* the batch ended in an error without results, and did nothing after the
\* document at position k
AbortedAt(runs, k) ==
    /\ response.kind = "error"
    /\ response.body = <<>>
    /\ response.log = runs[k].log

\* if a document of runs failed, the batch was aborted at the first that did
AbortedAtFirstFailure(runs) ==
    FailingDocuments(runs) # {} => AbortedAt(runs, FirstOf(FailingDocuments(runs)))

\* C19: when the validation or the processing of a document of a batch fails, the
\* call ends in an error that carries no result of any document, and no document
\* after the failing one is dispatched or summarized.
C19_FailureAbortsBatch ==
    AcceptedBatch => AbortedAtFirstFailure(DocumentRuns)

\* the generator raised on the first document of a batch whose second document it
\* would have summarized: the batch ended in that error after the one call
C19_Witness ==
    /\ AcceptedBatch /\ Len(request.args.texts) = 2
    /\ FailingDocuments(DocumentRuns) = {1}
    /\ response.error = "GeneratorError"
    /\ GeneratorCalls(response.log) = 1

\* result i is the result of summarizing text i
ResultsInInputOrder(runs) ==
    /\ Len(response.body) = Len(request.args.texts)
    /\ \A i \in 1..Len(request.args.texts) :
          /\ runs[i].ok
          /\ response.body[i] = runs[i].val
          /\ response.body[i].original_length = WordCount(request.args.texts[i])

\* C20: a successful batch call returns exactly one result per input text, and
\* result i is the summary of input text i.
C20_OneResultPerTextInOrder ==
    BatchCall /\ response.kind = "result" => ResultsInInputOrder(DocumentRuns)

\* a batch of two texts was summarized with two different summaries
C20_Witness ==
    /\ BatchCall /\ response.kind = "result"
    /\ Len(request.args.texts) = 2 /\ Len(response.body) = 2
    /\ response.body[1].summary # response.body[2].summary

----------------------------------------------------------------------------
(* Claims about the request limits *)

SummarizeCall == pc = "done" /\ request.kind = "summarize"

\* C21: a request whose min_length is greater than its max_length is rejected as
\* a validation error before any summarization work: it is never dispatched to
\* a strategy and no model is called for it.
C21_InvertedLengthsRejected ==
    SummarizeCall /\ request.args.min_length > request.args.max_length =>
        /\ response.kind = "error"
        /\ response.log = <<>>

\* a call on a local engine that returned one result
LocalResult ==
    /\ pc = "done" /\ request.kind \in {"service", "summarize"}
    /\ request.args.model \in LocalModels
    /\ response.kind = "result"

\* C22: max_length is the maximum summary length in words: whatever the method,
\* the summary returned for an accepted request on a local engine has at most
\* max_length words.
C22_SummaryWithinMaxLength ==
    LocalResult => WordCount(response.body.summary) <= request.args.max_length

----------------------------------------------------------------------------
(* Claims about the errors of the routes *)

\* the statuses that tell the caller the request was invalid
ValidationStatuses == {400, 422}

\* the handler of the state raised its own HTTPException(status_code=400)
RaisedValidationError ==
    \/ SummarizeCall /\ Len(Strip(request.args.text)) < MinTextChars
    \/ AcceptedBatch /\ 1 \in ShortDocuments

\* C23: a validation failure raised inside the summarize or batch route (a text
\* shorter than 50 characters, more than 10 texts) reaches the caller with a
\* validation status, not with the status 500 of a processing failure.
C23_ValidationErrorKeepsStatus ==
    /\ RaisedValidationError =>
            response.kind = "error" /\ response.status = 400
    /\ BatchCall /\ Len(request.args.texts) > MaxBatchTexts =>
            response.kind = "error" /\ response.status \in ValidationStatuses

\* the part of C23 about the size of a batch: more than 10 texts are answered
\* with a validation status
C23_OverLimitBatchStatus ==
    BatchCall /\ Len(request.args.texts) > MaxBatchTexts =>
        response.kind = "error" /\ response.status \in ValidationStatuses

----------------------------------------------------------------------------
(* Claims about the strategies *)

\* a direct call of the service with method "abstractive" on a loaded BART pipeline
AbstractiveRun ==
    /\ pc = "done" /\ request.kind = "service"
    /\ request.args.method = "abstractive" /\ "bart" \in models

IsGenerate(event) == event.op = "generate"
GenerateEvents(log) == SelectSeq(log, IsGenerate)

\* the texts the generator answered with to its first n calls
AnswerTexts(n) == AsList([i \in 1..n |-> answers.generated[i].text])
AnswersOk(n) == \A i \in 1..n : answers.generated[i].ok

\* the calls and the summary of a text of at most 1024 characters
DirectGeneration(txt, events) ==
    /\ Len(events) = 1
    /\ events[1].input = txt
    /\ response.kind = "result" <=> AnswersOk(1)
    /\ response.kind = "result" => response.body.summary = answers.generated[1].text

\* the calls and the summary of a longer text: one call per chunk in chunk order
\* up to the first that fails, then one on the joined outputs if they are longer
\* than max_length characters
ChunkedGeneration(chunklist, joined, events) ==
    /\ Len(events) <= Len(chunklist) + 1
    /\ \A i \in 1..Len(events) :
          /\ i <= Len(chunklist) => events[i].input = chunklist[i]
          /\ i > 1 => answers.generated[i-1].ok
          /\ i = Len(chunklist) + 1 =>
                events[i].input = joined /\ Len(joined) > request.args.max_length
    /\ response.kind = "result" <=> AnswersOk(Len(events))
    /\ response.kind = "result" /\ Len(joined) > request.args.max_length =>
          /\ Len(events) = Len(chunklist) + 1
          /\ response.body.summary = answers.generated[Len(chunklist) + 1].text
    /\ response.kind = "result" /\ Len(joined) <= request.args.max_length =>
          /\ Len(events) = Len(chunklist)
          /\ response.body.summary = joined

GenerationOf(txt, events) ==
    IF Len(txt) <= MaxChunkLength THEN DirectGeneration(txt, events)
    ELSE ChunkedGeneration(chunk_text(txt, MaxChunkLength),
                           Join(AnswerTexts(Len(chunk_text(txt, MaxChunkLength))), <<" ">>),
                           events)

\* C24: _abstractive_summarize calls the generator exactly once on a text of at
\* most 1024 characters; on a longer text it calls it once per chunk of chunk_text
\* in chunk order, joins the outputs with a single space, and calls it once more
\* on the joined text if and only if that is longer than max_length characters,
\* returning the output of that last call.
C24_GeneratorCallsPerChunk ==
    AbstractiveRun =>
        GenerationOf(preprocess_text(request.args.text), GenerateEvents(response.log))

\* the two chunks of a long text were summarized, the joined outputs were longer
\* than max_length characters, and the output of the third call was returned
C24_Witness ==
    /\ AbstractiveRun /\ Len(preprocess_text(request.args.text)) > MaxChunkLength
    /\ Len(GenerateEvents(response.log)) = 3
    /\ response.kind = "result"
    /\ response.body.summary = answers.generated[3].text
    /\ answers.generated[3].text # answers.generated[1].text

IsExtract(event) == event.op = "extract"
ExtractEvents(log) == SelectSeq(log, IsExtract)

\* the hybrid call of the state built its extractive request and entered the
\* extractive stage
ExtractStageEntered ==
    /\ HybridCall
    /\ Len(preprocess_text(request.args.text)) >= MinTextChars
    /\ request.args.max_length * 2 <= MaxMaxLength

\* the target the extractive stage was called with
ExtractTarget == ExtractEvents(response.log)[1].max_sentences

\* C25: the sentence target of the hybrid extractive stage is
\* min(2 * max_sentences, N), N being the number of sentences the segmenter of
\* extractive selection finds in the text; it is never smaller than
\* min(max_sentences, N).
C25_ExpandedTarget ==
    ExtractStageEntered =>
        /\ ExtractTarget = Min(2 * request.args.max_sentences, Len(RequestSentences))
        /\ ExtractTarget >= Min(request.args.max_sentences, Len(RequestSentences))

\* what the code computes: the target is min(2 * max_sentences, len(text.split('. ')))
C25_TargetCountsPeriodSpace ==
    ExtractStageEntered =>
        ExtractTarget = Min(2 * request.args.max_sentences,
                            SplitCount(preprocess_text(request.args.text)))

\* a hybrid call on a service with its sentence model and its BART pipeline
\* loaded, whose generator answers every call
WorkingHybridCall ==
    /\ HybridCall /\ sentence_model /\ "bart" \in models
    /\ Len(answers.generated) >= 1
    /\ AnswersOk(Len(answers.generated))

\* C26: with a working scorer and generator, a hybrid request inside the field
\* bounds reaches the generative stage and returns the generator's output; the
\* extractive fallback is taken only when the generator fails.
C26_HybridReachesGenerate ==
    WorkingHybridCall =>
        /\ response.kind = "result"
        /\ Len(GenerateEvents(response.log)) = 1
        /\ response.body.summary = answers.generated[1].text

\* a call on a local engine, directly or through POST /summarize, that got to
\* the dispatch on request.method
LocalDispatch ==
    /\ pc = "done" /\ request.kind \in {"service", "summarize"}
    /\ request.args.model \in LocalModels
    /\ Dispatches(response.log) # <<>>

HasEvent(log, op) == \E i \in 1..Len(log) : log[i].op = op

\* what the extractive stage of the hybrid call of the state returns
ExtractStageOutput ==
    extractive_summarize(preprocess_text(request.args.text),
                         Min(2 * request.args.max_sentences,
                             SplitCount(preprocess_text(request.args.text))),
                         answers, <<>>)

\* every generator call comes after a call of _extractive_summarize and gets the
\* output of the extractive stage
GeneratesAfterExtracting(log, extracted) ==
    \A i \in 1..Len(log) :
        log[i].op = "generate" =>
            /\ \E j \in 1..(i-1) : log[j].op = "extract"
            /\ extracted.ok
            /\ log[i].input = extracted.val

\* C27: the dispatch by method on a local engine is exclusive: an extractive
\* request never calls the generator, an abstractive request never calls
\* extractive selection or the embedding model, and a hybrid request calls
\* extractive selection first and the generator only afterwards, on the output of
\* the extractive stage.
C27_ExclusiveDispatch ==
    LocalDispatch =>
        /\ request.args.method = "extractive" => ~HasEvent(response.log, "generate")
        /\ request.args.method = "abstractive" =>
              ~HasEvent(response.log, "extract") /\ ~HasEvent(response.log, "encode")
        /\ request.args.method = "hybrid" =>
              /\ response.log[2].op = "extract"
              /\ GeneratesAfterExtracting(response.log, ExtractStageOutput)

\* a hybrid call scored three sentences, selected two, and handed the two to the
\* generator, whose output it returned
C27_Witness ==
    /\ LocalDispatch /\ request.args.method = "hybrid"
    /\ response.kind = "result"
    /\ Len(response.log) = 4
    /\ response.log[3].op = "encode" /\ response.log[4].op = "generate"
    /\ Len(response.log[4].input) < Len(preprocess_text(request.args.text))
    /\ response.body.summary = answers.generated[1].text

\* an abstractive or hybrid call on a local engine
GenerativeRequest ==
    /\ LocalDispatch
    /\ request.args.method \in {"abstractive", "hybrid"}

\* C28: the engine named in the model field of a result is the engine that
\* produced the summary: every generator call of an abstractive or hybrid request
\* naming local model m goes to model m, and when model m is not loaded the
\* request fails.
C28_NamedModelGenerates ==
    GenerativeRequest =>
        /\ \A i \in 1..Len(GenerateEvents(response.log)) :
              GenerateEvents(response.log)[i].model = request.args.model
        /\ request.args.model \notin models => response.kind = "error"

\* what the code does: a generator call goes to the named model when that model
\* is loaded and to the BART pipeline when it is not
C28_BartStandsIn ==
    GenerativeRequest =>
        \A i \in 1..Len(GenerateEvents(response.log)) :
            GenerateEvents(response.log)[i].model =
                IF request.args.model \in models THEN request.args.model ELSE "bart"

----------------------------------------------------------------------------
(* Claims about _calculate_sentence_scores *)

ScoresReturned == pc = "scored" /\ response.kind = "scores"

\* the sum of row i of np.dot(embeddings, embeddings.T)
RowSum(em, i) == SumSeq(AsList([j \in 1..Len(em) |-> Dot(em[i], em[j])]))

\* the largest row sum
TopRowSum(em) == CHOOSE t \in {RowSum(em, i) : i \in 1..Len(em)} :
                     \A i \in 1..Len(em) : RowSum(em, i) <= t

\* score s is the quotient a / b, b > 0
IsQuotient(s, a, b) == s.den > 0 /\ s.num * b = a * s.den

IsZero(s) == s.num = 0

Positive(s) == s.num > 0

AtMostOne(s) == s.num <= s.den

\* one score per sentence, each the row sum divided by the largest row sum when
\* that is positive, and all zero when it is not
RowSumsOverTop(em, scores, top) ==
    /\ Len(scores) = Len(em)
    /\ top > 0 => \A i \in 1..Len(em) : IsQuotient(scores[i], RowSum(em, i), top)
    /\ top <= 0 => \A i \in 1..Len(em) : IsZero(scores[i])

\* C29: _calculate_sentence_scores returns one score per sentence, each the row
\* sum of the similarity matrix divided by the maximum row sum; every returned
\* score lies in (0, 1]; when the maximum row sum is not positive all returned
\* scores are zero.
C29_ScoresInHalfOpenUnitInterval ==
    ScoresReturned =>
        /\ RowSumsOverTop(answers.embeddings, response.body, TopRowSum(answers.embeddings))
        /\ \A i \in 1..Len(response.body) :
              Positive(response.body[i]) /\ AtMostOne(response.body[i])

\* C29, amended: one score per sentence, each the row sum divided by the maximum
\* row sum when that is positive; no score exceeds 1 and, with a positive
\* maximum, some score equals 1; a score may be zero or negative; when the
\* maximum row sum is not positive all returned scores are zero.
C29_ScoresAtMostOne ==
    ScoresReturned =>
        /\ RowSumsOverTop(answers.embeddings, response.body, TopRowSum(answers.embeddings))
        /\ \A i \in 1..Len(response.body) : AtMostOne(response.body[i])
        /\ TopRowSum(answers.embeddings) > 0 =>
              \E i \in 1..Len(response.body) : response.body[i].num = response.body[i].den

\* a call with a positive maximum row sum that returned a negative score
C29_Witness ==
    /\ ScoresReturned
    /\ TopRowSum(answers.embeddings) > 0
    /\ \E i \in 1..Len(response.body) : response.body[i].num < 0

\* a call whose maximum row sum is zero although no embedding is the zero vector
C29_ZeroMaximum ==
    /\ ScoresReturned
    /\ TopRowSum(answers.embeddings) = 0
    /\ \A i \in 1..Len(answers.embeddings) : answers.embeddings[i] # <<0, 0>>

----------------------------------------------------------------------------
(* Claims about the times of a batch *)

\* a /batch call that returned a BatchSummarizationResult
TimedBatch == BatchCall /\ response.kind = "result"

NonDecreasing(xs) == \A i \in 1..(Len(xs) - 1) : xs[i] <= xs[i + 1]

\* each processing_time is the reading after its document minus start_time
SinceBatchStart(times, readings) ==
    /\ Len(times) = Len(response.body)
    /\ \A i \in 1..Len(times) : times[i] = readings[i + 1] - readings[1]

LastAtMost(times, total) == times = <<>> \/ times[Len(times)] <= total

\* C30: in a batch, the processing_time of each result is the time elapsed since
\* the start of the batch, not that document's own duration: the values are
\* non-decreasing along the result list and the last one is at most
\* total_processing_time.
C30_ProcessingTimesNonDecreasing ==
    TimedBatch =>
        /\ SinceBatchStart(response.processing_time, clock)
        /\ NonDecreasing(response.processing_time)
        /\ LastAtMost(response.processing_time, response.total_processing_time)

\* C30, amended: each processing_time is the clock reading after its document
\* minus the reading at the start of the batch; while the system clock is not
\* set back during the batch the values are non-decreasing along the result
\* list and the last one is at most total_processing_time.
C30_NonDecreasingUnderSteadyClock ==
    TimedBatch =>
        /\ SinceBatchStart(response.processing_time, clock)
        /\ NonDecreasing(clock) =>
              /\ NonDecreasing(response.processing_time)
              /\ LastAtMost(response.processing_time, response.total_processing_time)

\* a batch of two documents under a steady clock whose first document took
\* longer than its second: the second processing_time is not the smaller one
C30_Witness ==
    /\ TimedBatch
    /\ Len(response.body) >= 2
    /\ NonDecreasing(clock)
    /\ clock[2] - clock[1] > clock[3] - clock[2]
    /\ response.processing_time[1] <= response.processing_time[2]

\* a batch during which the clock was set back
C30_ClockSetBack ==
    /\ TimedBatch
    /\ ~NonDecreasing(clock)
    /\ ~NonDecreasing(response.processing_time)

====
